---- MODULE Spec2Model ----
(***************************************************************************)
(* A model of screenwatch/monitor.py: the udev event loop of               *)
(* ScreenMonitor.monitor, the debounce timer of _debounced_execute (a      *)
(* threading.Timer per forwarded event), the run of execute_with_wait on   *)
(* the timer's thread (_wait_for_displays_ready, then _execute_command),   *)
(* and the desktop exclusion check.                                        *)
(*                                                                         *)
(* Strings are sequences of one-character strings.  Time is counted in     *)
(* ticks for the debounce delay; the accumulated wait of                   *)
(* _wait_for_displays_ready is counted in units of check_interval (0.2s).  *)
(***************************************************************************)
EXTENDS Integers, Sequences, FiniteSets, TLC

\* ------------------------------------------------------------- bounds
\* Timers (forwarded events) created in one behaviour.
MaxEvents == 3
\* The configured debounce_delay ranges over 1..MaxDelay ticks.
MaxDelay == 2
\* Devices listed by one enumeration of the drm subsystem.
MaxDevices == 2

\* --------------------------------------------------- program constants
\* time.sleep(1.0) in units of check_interval.
SettleUnits == 5
\* max_wait = 5.0 in units of check_interval.
MaxWaitUnits == 25
\* check_interval = 0.2 is the unit.  The floats of the code give the same
\* turns of the loop as these integers: 1.0 plus twenty times 0.2 is the
\* first sum that is not below 5.0.
CheckUnits == 1

\* ------------------------------------------------------------ strings
UpperCase ==
    << "A","B","C","D","E","F","G","H","I","J","K","L","M",
       "N","O","P","Q","R","S","T","U","V","W","X","Y","Z" >>

LowerCase ==
    << "a","b","c","d","e","f","g","h","i","j","k","l","m",
       "n","o","p","q","r","s","t","u","v","w","x","y","z" >>

\* str.lower() on one character.
LowerChar(c) ==
    IF \E i \in 1..26 : UpperCase[i] = c
    THEN LowerCase[CHOOSE i \in 1..26 : UpperCase[i] = c]
    ELSE c

\* str.lower()
Lower(s) == [i \in 1..Len(s) |-> LowerChar(s[i])]

IsSpace(c) == c = " "

\* str.strip(): drop leading and trailing whitespace.
RECURSIVE LStrip(_)
LStrip(s) ==
    IF s # << >> /\ IsSpace(Head(s)) THEN LStrip(Tail(s)) ELSE s

RECURSIVE RStrip(_)
RStrip(s) ==
    IF s # << >> /\ IsSpace(s[Len(s)])
    THEN RStrip(SubSeq(s, 1, Len(s) - 1))
    ELSE s

Strip(s) == RStrip(LStrip(s))

\* str.split(','): the pieces between commas, empty pieces kept.
RECURSIVE SplitFrom(_, _, _)
SplitFrom(s, i, cur) ==
    IF i > Len(s) THEN << cur >>
    ELSE IF s[i] = "," THEN << cur >> \o SplitFrom(s, i + 1, << >>)
    ELSE SplitFrom(s, i + 1, Append(cur, s[i]))

Split(s) == SplitFrom(s, 1, << >>)

\* `sub in s` on strings: sub occurs in s as a contiguous run.
RECURSIVE FindFrom(_, _, _)
FindFrom(sub, s, i) ==
    IF i + Len(sub) - 1 > Len(s) THEN FALSE
    ELSE IF SubSeq(s, i, i + Len(sub) - 1) = sub THEN TRUE
    ELSE FindFrom(sub, s, i + 1)

Contains(sub, s) == FindFrom(sub, s, 1)

\* ------------------------------------------------- desktop exclusion
\* The variables read by _get_desktop_environment, in order:
\* XDG_CURRENT_DESKTOP, XDG_SESSION_DESKTOP, DESKTOP_SESSION; an unset
\* variable reads as ''.
NoDesktop == << >>

\* _get_desktop_environment: the first variable whose stripped value is
\* not empty; NoDesktop stands for None.
RECURSIVE DetectFrom(_, _)
DetectFrom(environ, i) ==
    IF i > Len(environ) THEN NoDesktop
    ELSE IF Strip(environ[i]) # << >> THEN Strip(environ[i])
    ELSE DetectFrom(environ, i + 1)

GetDesktopEnvironment(environ) == DetectFrom(environ, 1)

\* [d.strip().lower() for d in excluded if d.strip()]
RECURSIVE CleanFrom(_, _)
CleanFrom(parts, i) ==
    IF i > Len(parts) THEN << >>
    ELSE IF Strip(parts[i]) # << >>
         THEN << Lower(Strip(parts[i])) >> \o CleanFrom(parts, i + 1)
         ELSE CleanFrom(parts, i + 1)

ExcludedList(cfg) == CleanFrom(Split(cfg), 1)

\* One test of the loop: excluded_de in desktop_lower or
\* desktop_lower in excluded_de.  The mutant tests one direction only.
FragmentMatchesOneWay(excluded_de, desktop_lower) ==
    Contains(excluded_de, desktop_lower)

FragmentMatches(excluded_de, desktop_lower) ==
    Contains(excluded_de, desktop_lower) \/ Contains(desktop_lower, excluded_de)

\* for excluded_de in excluded: ... return True; return False
RECURSIVE MatchFrom(_, _, _)
MatchFrom(excluded, i, desktop_lower) ==
    IF i > Len(excluded) THEN FALSE
    ELSE IF FragmentMatches(excluded[i], desktop_lower) THEN TRUE
    ELSE MatchFrom(excluded, i + 1, desktop_lower)

\* _is_desktop_excluded
IsDesktopExcluded(environ, cfg) ==
    LET desktop == GetDesktopEnvironment(environ) IN
    IF desktop = NoDesktop THEN FALSE
    ELSE MatchFrom(ExcludedList(cfg), 1, Lower(desktop))

\* ------------------------------------------------------ device events
Card == << "c","a","r","d" >>
Card0 == << "c","a","r","d","0" >>
Card0DP1 == << "c","a","r","d","0","-","D","P","-","1" >>
RenderD128 == << "r","e","n","d","e","r","D","1","2","8" >>
Ttm == << "t","t","m" >>

\* The udev events of the drm subsystem the loop is fed: action, sys_name
\* and device_type ("none" stands for None).
Events ==
    { [action |-> "change", sys_name |-> Card0, device_type |-> "drm_minor"],
      [action |-> "add", sys_name |-> Card0DP1, device_type |-> "none"],
      [action |-> "remove", sys_name |-> RenderD128, device_type |-> "drm_minor"],
      [action |-> "bind", sys_name |-> Card0, device_type |-> "drm_minor"],
      [action |-> "change", sys_name |-> Ttm, device_type |-> "none"] }

NoEvent == [action |-> "none", sys_name |-> << >>, device_type |-> "none"]

\* The mutant forwards every action.
ShouldForwardAnyAction(device) ==
    Contains(Card, device.sys_name) \/ device.device_type = "drm_minor"

\* The two conditions of _handle_device_event.
ShouldForward(device) ==
    /\ device.action \in {"change", "add", "remove"}
    /\ Contains(Card, device.sys_name) \/ device.device_type = "drm_minor"

\* ------------------------------------------------------ readiness probe
\* A device of context.list_devices(subsystem='drm'): its sys_name, whether
\* 'status' is among its available attributes, and what reading the
\* attribute gives ("error" stands for asstring raising).
ProbeDevices ==
    { [sys_name |-> Card0DP1, has_status |-> TRUE, read |-> "connected"],
      [sys_name |-> Card0DP1, has_status |-> TRUE, read |-> "disconnected"],
      [sys_name |-> Card0DP1, has_status |-> TRUE, read |-> "error"],
      [sys_name |-> Card0, has_status |-> FALSE, read |-> "error"],
      [sys_name |-> RenderD128, has_status |-> TRUE, read |-> "connected"] }

RECURSIVE SeqsUpTo(_, _)
SeqsUpTo(S, n) ==
    IF n = 0 THEN { << >> }
    ELSE LET shorter == SeqsUpTo(S, n - 1) IN
         shorter \cup { Append(s, x) : s \in shorter, x \in S }

DeviceLists == SeqsUpTo(ProbeDevices, MaxDevices)

\* The mutant has no try/except around the read of the attribute.
ScanDeviceNoExcept(device) ==
    IF Contains(Card, device.sys_name) /\ device.has_status
    THEN IF device.read = "error" THEN [inc |-> 0, raised |-> TRUE]
         ELSE IF device.read = "connected" THEN [inc |-> 1, raised |-> FALSE]
         ELSE [inc |-> 0, raised |-> FALSE]
    ELSE [inc |-> 0, raised |-> FALSE]

\* The body of the for loop over the devices: what it adds to `connected`
\* and whether an exception leaves it.
ScanDevice(device) ==
    IF Contains(Card, device.sys_name) /\ device.has_status
    THEN IF device.read = "error" THEN [inc |-> 0, raised |-> FALSE]
         ELSE IF device.read = "connected" THEN [inc |-> 1, raised |-> FALSE]
         ELSE [inc |-> 0, raised |-> FALSE]
    ELSE [inc |-> 0, raised |-> FALSE]

\* for device in context.list_devices(subsystem='drm'): ...
RECURSIVE ScanFrom(_, _, _)
ScanFrom(devices, i, connected) ==
    IF i > Len(devices) THEN [connected |-> connected, raised |-> FALSE]
    ELSE LET r == ScanDevice(devices[i]) IN
         IF r.raised THEN [connected |-> connected, raised |-> TRUE]
         ELSE ScanFrom(devices, i + 1, connected + r.inc)

CountConnected(devices) == ScanFrom(devices, 1, 0)

\* ------------------------------------------------------------- state
VARIABLES
    environ,            \* os.environ: the three desktop variables
    excluded_desktops,  \* config['DEFAULT']['excluded_desktops']
    delay,              \* float(config['DEFAULT']['debounce_delay']), in ticks
    mainpc,             \* where the main thread is in monitor()
    exitStatus,         \* the status the process exits with, -1 while running
    source,             \* the udev monitor of monitor(): unopened, open, failed
    armedAtExit,        \* the timer still armed when `except Exception`
                        \* returned 1, 0 when there was none
    debounce_timer,     \* self.debounce_timer: 0 is None, else a timer
    nTimers,            \* Timer objects created so far
    lastEvent,          \* the device last given to _handle_device_event
    tpc,                \* where each timer's thread is
    finished,           \* each Timer's `finished` event flag
    remaining,          \* ticks left of each Timer's finished.wait(interval)
    lastOutcome,        \* how the last _execute_command of a run ended
    sinceLast,          \* ticks since the last forwarded event (capped)
    allClose,           \* every gap between forwarded events was < delay
    allFar,             \* every gap between forwarded events was > delay
    cancelledPending,   \* cancel() reached the timer while it counted down
    rpc,                \* one call of execute_with_wait: where it is
    waited,             \* that call's `waited` in _wait_for_displays_ready
    polls,              \* scans of the devices that call has made
    seen,               \* the devices its last scan listed
    spawns,             \* commands that call has spawned
    callExcluded        \* a call of _is_desktop_excluded: its result

vars ==
    << environ, excluded_desktops, delay, mainpc, exitStatus, source,
       armedAtExit, debounce_timer, nTimers, lastEvent, tpc, finished, remaining, lastOutcome,
       sinceLast, allClose, allFar, cancelledPending,
       rpc, waited, polls, seen, spawns, callExcluded >>

configVars == << environ, excluded_desktops, delay >>
mainVars == << mainpc, exitStatus, source, armedAtExit >>
timerVars == << debounce_timer, nTimers, tpc, finished, remaining >>
runVars == << lastOutcome >>
clockVars == << sinceLast, allClose, allFar >>
callVars == << rpc, waited, polls, seen, spawns, callExcluded >>

Timers == 1..MaxEvents

KDE == << "K","D","E" >>
I3 == << "i","3" >>
\* 'GNOME, kde'
GnomeKde == << "G","N","O","M","E",","," ","k","d","e" >>

\* The environments and the exclusion list the monitor is run with.
MonitorEnvirons == { << << >>, I3, << >> >>, << KDE, << >>, << >> >> }

\* The state after ScreenMonitor.__init__: no timer, nothing received.
InitMonitor ==
    /\ mainpc = "start"
    /\ exitStatus = -1
    /\ source = "unopened"
    /\ armedAtExit = 0
    /\ debounce_timer = 0
    /\ nTimers = 0
    /\ lastEvent = NoEvent
    /\ tpc = [t \in Timers |-> "none"]
    /\ finished = [t \in Timers |-> FALSE]
    /\ remaining = [t \in Timers |-> 0]
    /\ lastOutcome = "none"
    /\ sinceLast = 0
    /\ allClose = TRUE
    /\ allFar = TRUE
    /\ cancelledPending = [t \in Timers |-> FALSE]
    /\ rpc = "idle"
    /\ waited = 0
    /\ polls = 0
    /\ seen = << >>
    /\ spawns = 0
    /\ callExcluded = "unset"

Init ==
    /\ environ \in MonitorEnvirons
    /\ excluded_desktops = GnomeKde
    /\ delay \in 1..MaxDelay
    /\ InitMonitor

\* ------------------------------------------------------- main thread
\* The mutant enters the loop whatever the desktop is.
MonitorSkipsNever(env, cfg) == FALSE

\* monitor(): if self._is_desktop_excluded(): ... return 0
MonitorSkips(env, cfg) == IsDesktopExcluded(env, cfg)

\* monitor(): the desktop is excluded, return 0 before any udev object
\* is made.
StartExcluded ==
    /\ mainpc = "start"
    /\ MonitorSkips(environ, excluded_desktops)
    /\ mainpc' = "excluded"
    /\ exitStatus' = 0
    /\ UNCHANGED << configVars, source, armedAtExit, timerVars, runVars, clockVars, callVars,
                    lastEvent, cancelledPending >>

\* monitor(): pyudev.Context(), Monitor.from_netlink, filter_by succeed
\* and the loop is entered.
OpenSource ==
    /\ mainpc = "start"
    /\ ~MonitorSkips(environ, excluded_desktops)
    /\ mainpc' = "poll"
    /\ source' = "open"
    /\ UNCHANGED armedAtExit
    /\ UNCHANGED << configVars, exitStatus, timerVars, runVars, clockVars,
                    callVars, lastEvent, cancelledPending >>

\* The mutant swallows the exception and goes on into the loop.
AfterOpenFailureSwallowed == "poll"

\* pyudev.Context() and Monitor.from_netlink are called outside the try:
\* what they raise leaves monitor() and main().
AfterOpenFailure == "openfailed"

\* monitor(): pyudev.Context() or Monitor.from_netlink raises; the
\* uncaught exception ends the interpreter with status 1.
OpenFails ==
    /\ mainpc = "start"
    /\ ~MonitorSkips(environ, excluded_desktops)
    /\ mainpc' = AfterOpenFailure
    /\ source' = "failed"
    /\ UNCHANGED armedAtExit
    /\ exitStatus' = IF AfterOpenFailure = "openfailed" THEN 1 ELSE exitStatus
    /\ UNCHANGED << configVars, timerVars, runVars, clockVars, callVars,
                    lastEvent, cancelledPending >>

\* Timer.cancel() on the timers of set S: finished.set().
CancelAll(S) ==
    /\ finished' = [t \in Timers |-> IF t \in S THEN TRUE ELSE finished[t]]
    /\ cancelledPending' =
         [t \in Timers |->
            IF t \in S /\ tpc[t] = "wait" /\ ~finished[t]
            THEN TRUE ELSE cancelledPending[t]]

\* The mutant stops the threads of the cancelled timers even when they
\* are past the wait.
ThreadsAfterCancelStopsRuns(S) ==
    [t \in Timers |->
       IF t \in S /\ tpc[t] \in {"fire", "readiness", "command"}
       THEN "dead" ELSE tpc[t]]

\* Timer.cancel() sets the flag and nothing else: where each timer
\* thread stands is as before.
ThreadsAfterCancel(S) == tpc

\* The mutant cancels the current timer on the error path as the
\* interrupt path does.
TimersCancelledOnErrorAsOnInterrupt(current) ==
    IF current # 0 THEN {current} ELSE { }

\* except Exception: logs and returns 1; it calls no cancel().
TimersCancelledOnError(current) == { }

\* The mutant does not cancel the timer it replaces.
TimersToCancelNone(current) == { }

\* if self.debounce_timer: self.debounce_timer.cancel()
TimersToCancel(current) == IF current # 0 THEN {current} ELSE { }

\* The mutant arms the timer for one tick more than the configured delay.
TimerIntervalLate(d) == d + 1

\* Timer(delay, execute_with_wait)
TimerInterval(d) == d

\* The mutant holds a guard against a run in progress: while a timer's
\* function runs, no new timer is made.
DebouncedExecuteExclusive ==
    LET new == nTimers + 1 IN
    /\ \A t \in Timers : tpc[t] \notin {"readiness", "command"}
    /\ nTimers < MaxEvents
    /\ nTimers' = new
    /\ debounce_timer' = new
    /\ tpc' = [tpc EXCEPT ![new] = "wait"]
    /\ finished' = [t \in Timers |-> t = debounce_timer \/ finished[t]]
    /\ cancelledPending' =
         [t \in Timers |->
            (t = debounce_timer /\ tpc[t] = "wait" /\ ~finished[t])
               \/ cancelledPending[t]]
    /\ remaining' = [remaining EXCEPT ![new] = delay]
    /\ sinceLast' = 0
    /\ allClose' = (allClose /\ (nTimers = 0 \/ sinceLast < delay))
    /\ allFar' = (allFar /\ (nTimers = 0 \/ sinceLast > delay))

\* _debounced_execute: cancel the current timer, make a Timer of `delay`
\* for execute_with_wait, keep it in self.debounce_timer and start it.
DebouncedExecute ==
    LET new == nTimers + 1 IN
    /\ nTimers < MaxEvents
    /\ nTimers' = new
    /\ debounce_timer' = new
    /\ tpc' = [ThreadsAfterCancel(TimersToCancel(debounce_timer))
                 EXCEPT ![new] = "wait"]
    /\ CancelAll(TimersToCancel(debounce_timer))
    /\ remaining' = [remaining EXCEPT ![new] = TimerInterval(delay)]
    /\ sinceLast' = 0
    /\ allClose' = (allClose /\ (nTimers = 0 \/ sinceLast < delay))
    /\ allFar' = (allFar /\ (nTimers = 0 \/ sinceLast > delay))

\* One turn of `for device in iter(monitor.poll, None)`:
\* _handle_device_event(device).
HandleDeviceEvent(device) ==
    /\ mainpc = "poll"
    /\ lastEvent' = device
    /\ IF ShouldForward(device)
       THEN DebouncedExecute
       ELSE UNCHANGED << timerVars, clockVars, cancelledPending >>
    /\ UNCHANGED << configVars, mainVars, runVars, callVars >>

\* except KeyboardInterrupt: cancel the current timer, return 0.
Interrupt ==
    /\ mainpc = "poll"
    /\ mainpc' = "interrupted"
    /\ exitStatus' = 0
    /\ UNCHANGED << source, armedAtExit >>
    /\ CancelAll(TimersToCancel(debounce_timer))
    /\ tpc' = ThreadsAfterCancel(TimersToCancel(debounce_timer))
    /\ UNCHANGED << configVars, debounce_timer, nTimers, remaining,
                    runVars, clockVars, callVars, lastEvent >>

\* except Exception: monitor.poll raised; return 1.  No timer is touched.
LoopError ==
    /\ mainpc = "poll"
    /\ mainpc' = "failed"
    /\ exitStatus' = 1
    /\ UNCHANGED source
    /\ armedAtExit' =
         IF debounce_timer # 0 /\ tpc[debounce_timer] = "wait"
               /\ ~finished[debounce_timer]
         THEN debounce_timer ELSE 0
    /\ CancelAll(TimersCancelledOnError(debounce_timer))
    /\ UNCHANGED << configVars, debounce_timer, nTimers, tpc, remaining,
                    runVars, clockVars, callVars, lastEvent >>

\* ------------------------------------------------------ timer threads
\* Time passes by one tick.  A Timer whose wait is over (its interval has
\* run out, or it was cancelled) wakes before more time passes.
Tick ==
    /\ nTimers > 0
    /\ \A t \in Timers : tpc[t] = "wait" => ~finished[t] /\ remaining[t] > 0
    /\ remaining' =
         [t \in Timers |->
            IF tpc[t] = "wait" THEN remaining[t] - 1 ELSE remaining[t]]
    /\ sinceLast' = IF sinceLast <= delay THEN sinceLast + 1 ELSE sinceLast
    /\ UNCHANGED << configVars, mainVars, debounce_timer, nTimers, tpc,
                    finished, runVars, allClose, allFar, callVars, lastEvent,
                    cancelledPending >>

\* The mutant calls the function whether or not the timer was cancelled.
AfterWaitNoCheck(isSet) == "fire"

\* Timer.run after finished.wait(interval) has returned:
\* if not self.finished.is_set(), the function is called.
AfterWait(isSet) == IF isSet THEN "dead" ELSE "fire"

\* Timer.run: finished.wait(interval) returns, because the interval has
\* run out or because cancel() set the flag, and the flag is tested.
TimerWake(t) ==
    /\ tpc[t] = "wait"
    /\ finished[t] \/ remaining[t] = 0
    /\ tpc' = [tpc EXCEPT ![t] = AfterWait(finished[t])]
    /\ remaining' = [remaining EXCEPT ![t] = 0]
    /\ UNCHANGED << configVars, mainVars, debounce_timer, nTimers, finished,
                    runVars, clockVars, callVars, lastEvent,
                    cancelledPending >>

\* The mutant calls _execute_command first, without the readiness wait.
RunEntrySkipsWait == "command"

\* execute_with_wait: its first statement is the call of
\* _wait_for_displays_ready.
RunEntry == "readiness"

\* Timer.run calls execute_with_wait, which calls
\* _wait_for_displays_ready.
RunStart(t) ==
    /\ tpc[t] = "fire"
    /\ tpc' = [tpc EXCEPT ![t] = RunEntry]
    /\ UNCHANGED << configVars, mainVars, debounce_timer, nTimers, finished,
                    remaining, lastOutcome, clockVars, callVars, lastEvent,
                    cancelledPending >>

\* The mutant runs the command whatever the desktop is.
ExecuteSkipsNever(env, cfg) == FALSE

\* _execute_command: if self._is_desktop_excluded(): return
ExecuteSkips(env, cfg) == IsDesktopExcluded(env, cfg)

\* How subprocess.run can end once the command runs: exit status 0,
\* another exit status, TimeoutExpired after 30s, another exception.
CommandResults == {"ok", "failed", "timeout", "error"}

\* The mutant runs the whole run again when the command has failed.
AfterCommandRetry(result) ==
    IF result = "failed" THEN "readiness" ELSE "done"

\* The mutant lets an exception other than TimeoutExpired leave
\* _execute_command.
AfterCommandUncaught(result) ==
    IF result = "error" THEN "crashed" ELSE "done"

\* The branches on result.returncode and the two except clauses: each
\* logs, and _execute_command returns.
AfterCommand(result) == "done"

\* _wait_for_displays_ready returns (Poll below is its loop) and
\* execute_with_wait calls _execute_command: on an excluded desktop it
\* returns at once, otherwise subprocess.run spawns the command.
Execute(t) ==
    /\ tpc[t] = "readiness"
    /\ IF ExecuteSkips(environ, excluded_desktops)
       THEN /\ tpc' = [tpc EXCEPT ![t] = "done"]
            /\ finished' = [finished EXCEPT ![t] = TRUE]
            /\ lastOutcome' = "excluded"
       ELSE /\ tpc' = [tpc EXCEPT ![t] = "command"]
            /\ UNCHANGED << finished, lastOutcome >>
    /\ UNCHANGED << configVars, mainVars, debounce_timer, nTimers, remaining,
                    clockVars, callVars, lastEvent, cancelledPending >>

\* As Execute, but subprocess.run raises before the command runs (the
\* shell cannot be spawned); except Exception logs it.
ExecuteSpawnError(t) ==
    /\ tpc[t] = "readiness"
    /\ ~ExecuteSkips(environ, excluded_desktops)
    /\ tpc' = [tpc EXCEPT ![t] = AfterCommand("error")]
    /\ finished' =
         [finished EXCEPT ![t] = (AfterCommand("error") = "done") \/ @]
    /\ lastOutcome' = "error"
    /\ UNCHANGED << configVars, mainVars, debounce_timer, nTimers, remaining,
                    clockVars, callVars, lastEvent, cancelledPending >>

\* subprocess.run ends; _execute_command logs and returns,
\* execute_with_wait returns, and Timer.run sets `finished`.
CommandEnd(t, result) ==
    /\ tpc[t] = "command"
    /\ tpc' = [tpc EXCEPT ![t] = AfterCommand(result)]
    /\ finished' = [finished EXCEPT ![t] = (AfterCommand(result) = "done") \/ @]
    /\ lastOutcome' = result
    /\ UNCHANGED << configVars, mainVars, debounce_timer, nTimers, remaining,
                    clockVars, callVars, lastEvent, cancelledPending >>

\* ------------------------------------------------------ specification
Next ==
    \/ StartExcluded
    \/ OpenSource
    \/ OpenFails
    \/ \E device \in Events : HandleDeviceEvent(device)
    \/ Interrupt
    \/ LoopError
    \/ Tick
    \/ \E t \in Timers : TimerWake(t)
    \/ \E t \in Timers : RunStart(t)
    \/ \E t \in Timers : Execute(t)
    \/ \E t \in Timers : ExecuteSpawnError(t)
    \/ \E t \in Timers, result \in CommandResults : CommandEnd(t, result)

Spec == Init /\ [][Next]_vars

\* ------------------------------------------ one run, statement by statement
\* execute_with_wait is called: _wait_for_displays_ready sets waited = 0.0
\* and time.sleep(1.0) begins.
CallExecuteWithWait ==
    /\ rpc = "idle"
    /\ rpc' = "settle"
    /\ waited' = 0
    /\ UNCHANGED << configVars, mainVars, timerVars, runVars, clockVars,
                    lastEvent, cancelledPending, polls, seen, spawns,
                    callExcluded >>

\* time.sleep(1.0) is over: waited += 1.0, the Context is made and the
\* while loop is reached.
Settle ==
    /\ rpc = "settle"
    /\ waited' = waited + SettleUnits
    /\ rpc' = "poll"
    /\ UNCHANGED << configVars, mainVars, timerVars, runVars, clockVars,
                    lastEvent, cancelledPending, polls, seen, spawns,
                    callExcluded >>

\* The mutant has no bound on the wait.
LoopContinuesForever(w) == TRUE

\* while waited < max_wait
LoopContinues(w) == w < MaxWaitUnits

\* One turn of the while loop: the devices are scanned; with a connected
\* display the function returns True; otherwise time.sleep(check_interval)
\* and waited += check_interval.
Poll ==
    /\ rpc = "poll"
    /\ LoopContinues(waited)
    /\ \E devices \in DeviceLists :
         LET r == CountConnected(devices) IN
         /\ seen' = devices
         /\ polls' = polls + 1
         /\ IF r.raised
            THEN rpc' = "raised" /\ UNCHANGED waited
            ELSE IF r.connected > 0
            THEN rpc' = "ready" /\ UNCHANGED waited
            ELSE rpc' = "poll" /\ waited' = waited + CheckUnits
    /\ UNCHANGED << configVars, mainVars, timerVars, runVars, clockVars,
                    lastEvent, cancelledPending, spawns, callExcluded >>

\* The mutant signals failure when the wait has timed out, and the run
\* is given up.
AfterLoopSignalsFailure == "gaveup"

\* After the loop: logger.debug and `return True`, as when a display was
\* found; execute_with_wait does not look at the value.
AfterLoop == "ready"

\* The loop test fails: the function logs and returns True.
LoopExit ==
    /\ rpc = "poll"
    /\ ~LoopContinues(waited)
    /\ rpc' = AfterLoop
    /\ UNCHANGED << configVars, mainVars, timerVars, runVars, clockVars,
                    lastEvent, cancelledPending, waited, polls, seen, spawns,
                    callExcluded >>

\* _wait_for_displays_ready has returned and execute_with_wait calls
\* _execute_command: on an excluded desktop it returns at once, otherwise
\* subprocess.run spawns the command.
ExecuteCommand ==
    /\ rpc = "ready"
    /\ IF ExecuteSkips(environ, excluded_desktops)
       THEN rpc' = "done" /\ UNCHANGED spawns
       ELSE rpc' = "command" /\ spawns' = spawns + 1
    /\ UNCHANGED << configVars, mainVars, timerVars, runVars, clockVars,
                    lastEvent, cancelledPending, waited, polls, seen,
                    callExcluded >>

\* As ExecuteCommand, but subprocess.run raises before the command runs;
\* except Exception logs it.
ExecuteCommandSpawnError ==
    /\ rpc = "ready"
    /\ ~ExecuteSkips(environ, excluded_desktops)
    /\ rpc' = AfterCommand("error")
    /\ UNCHANGED << configVars, mainVars, timerVars, runVars, clockVars,
                    lastEvent, cancelledPending, waited, polls, seen, spawns,
                    callExcluded >>

\* subprocess.run ends and _execute_command returns.
CommandReturns(result) ==
    /\ rpc = "command"
    /\ rpc' = AfterCommand(result)
    /\ UNCHANGED << configVars, mainVars, timerVars, runVars, clockVars,
                    lastEvent, cancelledPending, waited, polls, seen, spawns,
                    callExcluded >>

InitRun ==
    /\ environ \in MonitorEnvirons
    /\ excluded_desktops = GnomeKde
    /\ delay = 1
    /\ InitMonitor

NextRun ==
    \/ CallExecuteWithWait
    \/ Settle
    \/ Poll
    \/ LoopExit
    \/ ExecuteCommand
    \/ ExecuteCommandSpawnError
    \/ \E result \in CommandResults : CommandReturns(result)

\* One call of execute_with_wait on a constructed ScreenMonitor.
SpecRun == InitRun /\ [][NextRun]_vars

\* The steps of the run before and after the call of _execute_command.
WaitOrCommandStep ==
    \/ CallExecuteWithWait
    \/ Settle
    \/ Poll
    \/ LoopExit
    \/ \E result \in CommandResults : CommandReturns(result)

\* The same call on a thread that keeps running: time.sleep returns, a
\* scan of the devices ends, subprocess.run returns or times out after 30
\* seconds, and the thread that has returned from the wait does not stay
\* before the call of _execute_command (the step from "ready", always
\* possible there).
SpecRunFair ==
    /\ SpecRun
    /\ WF_vars(WaitOrCommandStep)
    /\ []<>(rpc # "ready")

\* --------------------------------------------- the exclusion check alone
\* Bounds on the strings the check is given.
MaxEnvLen == 2
MaxCfgLen == 3

EnvStrings == SeqsUpTo({"K", "d", " "}, MaxEnvLen)
OtherEnvStrings == { << >>, << "k" >> }
CfgStrings == SeqsUpTo({"k", "D", ",", " "}, MaxCfgLen)

\* True and False as the call returns them.
PyBool(b) == IF b THEN "True" ELSE "False"

\* A call of _is_desktop_excluded.
CallIsDesktopExcluded ==
    /\ callExcluded = "unset"
    /\ callExcluded' = PyBool(IsDesktopExcluded(environ, excluded_desktops))
    /\ UNCHANGED << configVars, mainVars, timerVars, runVars, clockVars,
                    lastEvent, cancelledPending, rpc, waited, polls, seen,
                    spawns >>

InitExcl ==
    /\ environ \in { << a, b, c >> :
                       a \in EnvStrings, b \in OtherEnvStrings,
                       c \in OtherEnvStrings }
    /\ excluded_desktops \in CfgStrings
    /\ delay = 1
    /\ InitMonitor

NextExcl == CallIsDesktopExcluded

\* _is_desktop_excluded on a constructed ScreenMonitor, for every
\* environment and exclusion list within the bounds.
SpecExcl == InitExcl /\ [][NextExcl]_vars

\* ------------------------------------------------------------- claims
\* A timer whose function has been or is about to be called: it passed
\* the test of `finished` in Timer.run.
Attempted(t) == tpc[t] \in {"fire", "readiness", "command", "done", "crashed"}

\* C1: while the loop runs and every forwarded event came less than
\* debounce_delay after the one before, only the timer of the last event
\* can run: it is still counting down, with delay - sinceLast left, until
\* delay after the last event, and it has fired once more time than that
\* has passed; no earlier timer ever runs.
C1_Coalescing ==
    (mainpc = "poll" /\ nTimers >= 1 /\ allClose) =>
        /\ \A t \in 1..(nTimers - 1) : ~Attempted(t)
        /\ sinceLast < delay =>
             /\ tpc[nTimers] = "wait"
             /\ ~finished[nTimers]
             /\ remaining[nTimers] = delay - sinceLast
        /\ Attempted(nTimers) => sinceLast >= delay
        /\ sinceLast > delay => Attempted(nTimers)

\* A burst of MaxEvents events has been coalesced into the one run of the
\* last timer.
C1_Witness ==
    /\ mainpc = "poll"
    /\ allClose
    /\ nTimers = MaxEvents
    /\ \A t \in 1..(nTimers - 1) : tpc[t] = "dead"
    /\ tpc[nTimers] = "done"

\* C2: while the loop runs and every forwarded event came more than
\* debounce_delay after the one before, the timer of every event but the
\* last has run and none was cancelled while counting down; the last
\* timer has not run before delay has passed and has run after it.
C2_OneRunPerEvent ==
    (mainpc = "poll" /\ nTimers >= 1 /\ allFar) =>
        /\ \A t \in 1..(nTimers - 1) : Attempted(t) /\ ~cancelledPending[t]
        /\ sinceLast < delay => ~Attempted(nTimers)
        /\ sinceLast > delay => Attempted(nTimers)

\* MaxEvents events far apart have each had their run.
C2_Witness ==
    /\ mainpc = "poll"
    /\ allFar
    /\ nTimers = MaxEvents
    /\ \A t \in Timers : tpc[t] = "done"

\* C3: a timer that cancel() reached while it was counting down is still
\* waiting or has ended without calling its function.
C3_CancelledNeverRuns ==
    \A t \in Timers : cancelledPending[t] => tpc[t] \in {"wait", "dead"}

\* A timer was cancelled by a later event and its thread has ended.
C3_Witness ==
    \E t \in Timers :
        /\ cancelledPending[t]
        /\ tpc[t] = "dead"
        /\ t < nTimers
        /\ mainpc = "poll"

\* C4: after the interrupt the monitor has status 0, the current timer is
\* cancelled, and no timer's thread enters _wait_for_displays_ready or
\* spawns the command.
C4_NoExecutionAfterInterrupt ==
    /\ [](mainpc = "interrupted" =>
            /\ exitStatus = 0
            /\ debounce_timer # 0 => finished[debounce_timer])
    /\ [][mainpc = "interrupted" =>
            \A t \in Timers :
                tpc'[t] \in {"readiness", "command"} => tpc'[t] = tpc[t]]_vars

\* C5: no timer's thread is ended by an exception, and the step by which
\* _execute_command spawns the command or returns, whatever the outcome,
\* ends in the command running or in a normal return and leaves the main
\* thread where it was, its exit status and the current timer unchanged.
C5_CommandFailuresContained ==
    /\ [](\A t \in Timers : tpc[t] # "crashed")
    /\ [][\A t \in Timers :
            (tpc[t] \in {"readiness", "command"} /\ tpc'[t] # tpc[t]) =>
                /\ tpc'[t] \in {"command", "done"}
                /\ mainpc' = mainpc
                /\ exitStatus' = exitStatus
                /\ debounce_timer' = debounce_timer
                /\ nTimers' = nTimers]_vars

\* The first command timed out, the loop is still polling and the timer of
\* a second event is armed.
C5_Witness ==
    /\ mainpc = "poll"
    /\ exitStatus = -1
    /\ lastOutcome = "timeout"
    /\ nTimers = 2
    /\ tpc[1] = "done"
    /\ tpc[2] = "wait"
    /\ ~finished[2]

\* The devices of a scan that count as connected displays: 'card' in the
\* name, a status attribute, and a read that gives 'connected'.
ConnectedIn(devices) ==
    Cardinality({ i \in 1..Len(devices) :
                    /\ Contains(Card, devices[i].sys_name)
                    /\ devices[i].has_status
                    /\ devices[i].read = "connected" })

\* C6: in _wait_for_displays_ready the accumulated wait never exceeds
\* max_wait, there are at most (max_wait - 1.0) / check_interval scans, no
\* exception leaves it, the loop goes on only after a scan that counted
\* no connected display, and it returns before max_wait only after a scan
\* that counted one, a failed read counting as not connected.
C6_WaitBounded ==
    /\ waited <= MaxWaitUnits
    /\ polls * CheckUnits <= MaxWaitUnits - SettleUnits
    /\ rpc # "raised"
    /\ (rpc = "poll" /\ polls > 0) => ConnectedIn(seen) = 0
    /\ (rpc = "ready" /\ waited < MaxWaitUnits) => ConnectedIn(seen) > 0

\* The wait ran to max_wait and its last scan met a failed read.
C6_Witness ==
    /\ rpc = "ready"
    /\ waited = MaxWaitUnits
    /\ \E i \in 1..Len(seen) :
          /\ Contains(Card, seen[i].sys_name)
          /\ seen[i].has_status
          /\ seen[i].read = "error"

\* C7: on an excluded desktop monitor() never enters the loop: it is at
\* its start or has returned 0, no event was handled, no timer exists.
C7_ExcludedStartup ==
    IsDesktopExcluded(environ, excluded_desktops) =>
        /\ mainpc \in {"start", "excluded"}
        /\ mainpc = "excluded" <=> exitStatus = 0
        /\ exitStatus \in {-1, 0}
        /\ lastEvent = NoEvent
        /\ nTimers = 0
        /\ debounce_timer = 0
        /\ \A t \in Timers : tpc[t] = "none"

\* monitor() has returned 0 on the excluded desktop KDE.
C7_Witness ==
    /\ GetDesktopEnvironment(environ) = KDE
    /\ mainpc = "excluded"
    /\ exitStatus = 0

\* C8: on an excluded desktop _execute_command never spawns the command,
\* and _execute_command makes no scan of the devices.
C8_ExcludedExecute ==
    /\ [](IsDesktopExcluded(environ, excluded_desktops) =>
            spawns = 0 /\ rpc # "command")
    /\ [][rpc = "ready" => polls' = polls /\ waited' = waited]_vars

\* On KDE with 'kde' excluded, _execute_command has returned.
C8_Witness ==
    /\ GetDesktopEnvironment(environ) = KDE
    /\ Contains(<< "k","d","e" >>, excluded_desktops)
    /\ rpc = "done"
    /\ spawns = 0

\* What the claim forwards: an action among add, change, remove on a
\* device with 'card' in its name or of type drm_minor.
ClaimForwards(device) ==
    /\ \E a \in {"add", "change", "remove"} : device.action = a
    /\ \/ \E i \in 1..Len(device.sys_name) :
             /\ i + 3 <= Len(device.sys_name)
             /\ SubSeq(device.sys_name, i, i + 3) = << "c","a","r","d" >>
       \/ device.device_type = "drm_minor"

\* C9: a handled event that the claim forwards cancels the current timer
\* and arms a new one, which becomes the current timer; any other handled
\* event leaves every timer, the clock of the debounce and the runs as
\* they were.
C9_ForwardFilter ==
    [][\A device \in Events :
         HandleDeviceEvent(device) =>
            IF ClaimForwards(device)
            THEN /\ nTimers' = nTimers + 1
                 /\ debounce_timer' = nTimers'
                 /\ tpc'[nTimers'] = "wait"
                 /\ debounce_timer # 0 => finished'[debounce_timer]
            ELSE UNCHANGED << timerVars, clockVars, runVars,
                              cancelledPending >>]_vars

\* A 'bind' event on card0 was handled while a timer was armed, and the
\* timer is still armed.
C9_Witness ==
    /\ lastEvent.action = "bind"
    /\ nTimers = 1
    /\ tpc[1] = "wait"
    /\ ~finished[1]
    /\ remaining[1] < delay

\* Two strings equal up to the case of their letters.
SameIgnoringCase(a, b) ==
    /\ Len(a) = Len(b)
    /\ \A i \in 1..Len(a) : LowerChar(a[i]) = LowerChar(b[i])

\* sub occurs in s, up to the case of the letters.
OccursIn(sub, s) ==
    \E i \in 0..(Len(s) - Len(sub)) :
        SameIgnoringCase(sub, SubSeq(s, i + 1, i + Len(sub)))

\* The non-empty fragments of the configured list: its comma-separated
\* items without the whitespace around them.
ConfiguredFragments(cfg) ==
    { Strip(Split(cfg)[i]) : i \in 1..Len(Split(cfg)) } \ { << >> }

\* C10: with a desktop detected, _is_desktop_excluded returns True exactly
\* when some non-empty configured fragment occurs in the desktop's name or
\* the name occurs in the fragment, up to the case of the letters.
C10_ExclusionMatch ==
    LET D == GetDesktopEnvironment(environ) IN
    (callExcluded # "unset" /\ D # NoDesktop) =>
        (callExcluded = "True" <=>
            \E F \in ConfiguredFragments(excluded_desktops) :
                OccursIn(F, D) \/ OccursIn(D, F))

\* The desktop is excluded only because its name occurs in a longer
\* fragment written in the other case.
C10_Witness ==
    LET D == GetDesktopEnvironment(environ) IN
    /\ callExcluded = "True"
    /\ D = << "K" >>
    /\ ConfiguredFragments(excluded_desktops) = { << "D", "k" >> }

\* C11: when the udev monitor cannot be opened the process has ended with
\* status 1 without entering the loop: no event was handled and no timer
\* exists, so nothing is armed and no command runs.
C11_OpenFailureFatal ==
    source = "failed" =>
        /\ mainpc = "openfailed"
        /\ exitStatus = 1
        /\ lastEvent = NoEvent
        /\ nTimers = 0
        /\ debounce_timer = 0
        /\ \A t \in Timers : tpc[t] = "none"

\* The open failed on a desktop that is not excluded.
C11_Witness ==
    /\ source = "failed"
    /\ exitStatus = 1
    /\ ~IsDesktopExcluded(environ, excluded_desktops)

\* C12: no timer begins its run (the readiness wait followed by the
\* command) after a later event has cancelled it: a step never takes a timer
\* whose flag a later event has set into the run.
C12_NoRunAfterCancel ==
    [][\A t \in Timers :
          (finished[t] /\ t < nTimers /\ tpc[t] \in {"wait", "fire"})
              => tpc'[t] # "readiness"]_vars

\* A timer is armed: started, not yet fired, not cancelled.
Armed(t) == tpc[t] = "wait" /\ ~finished[t]

\* C13: in every reachable state at most one timer is armed, and it is the
\* one debounce_timer refers to.
C13_AtMostOneArmed ==
    /\ Cardinality({t \in Timers : Armed(t)}) <= 1
    /\ \A t \in Timers : Armed(t) => t = debounce_timer

\* A second timer is armed while the first, cancelled, has not yet woken.
C13_Witness ==
    /\ nTimers = 2
    /\ Armed(2)
    /\ tpc[1] = "wait"
    /\ finished[1]

\* A timer thread is inside execute_with_wait.
InRun(t) == tpc[t] \in {"readiness", "command"}

\* C14: a timer's run goes in one order on the timer's own thread: the
\* function is entered from the fired timer at the readiness wait, the
\* command is reached only from the readiness wait of the same timer, and
\* these steps leave the main thread where it is.
C14_WaitThenExecute ==
    [][\A t \in Timers :
          tpc'[t] # tpc[t] =>
              /\ tpc[t] = "fire" => tpc'[t] = "readiness"
              /\ tpc'[t] = "readiness" => tpc[t] = "fire"
              /\ tpc'[t] = "command" => tpc[t] = "readiness"
              /\ tpc'[t] = "done" => InRun(t)
              /\ tpc[t] # "none" => mainpc' = mainpc]_vars

\* A timer has come through the readiness wait and its command runs.
C14_Witness ==
    \E t \in Timers : tpc[t] = "command" /\ lastOutcome = "none"

\* C15: once the timer's function has been called, _execute_command is
\* eventually invoked (the command is spawned, or the call has returned):
\* the wait never ends in an exception, and a wait that has run to
\* max_wait without a connected display is followed by the command too.
C15_ExpiryLeadsToExecute ==
    /\ (rpc = "settle") ~> (rpc \in {"command", "done"})
    /\ (rpc = "poll" /\ ~LoopContinues(waited) /\ ConnectedIn(seen) = 0)
           ~> (rpc \in {"command", "done"})
    /\ [](rpc \notin {"raised", "gaveup"})

\* The wait ran to max_wait, the last scan saw no connected display, and
\* the command has been spawned.
C15_Witness ==
    /\ rpc = "command"
    /\ spawns = 1
    /\ waited = MaxWaitUnits
    /\ polls > 0
    /\ ConnectedIn(seen) = 0

\* C16: an event that arrives while a run is in progress leaves that run
\* where it is: the handler only sets the flag of the timer it holds,
\* which stops that timer only if it is still waiting; and a run in
\* progress, cancelled or not, goes on to the command or to its end and
\* is never dropped.
C16_EventLeavesRunAlone ==
    /\ [][\A device \in Events : HandleDeviceEvent(device) =>
            \A t \in Timers :
               /\ InRun(t) => tpc'[t] = tpc[t]
               /\ cancelledPending'[t] # cancelledPending[t] => Armed(t)
               /\ tpc[t] = "done" =>
                     tpc'[t] = "done" /\ finished'[t] = finished[t]]_vars
    /\ [][\A t \in Timers :
            InRun(t) => tpc'[t] \in {"readiness", "command", "done"}]_vars

\* A later event has cancelled timer 1 when its wait was over, a new
\* timer is waiting, and timer 1 has gone on to spawn the command.
C16_Witness ==
    /\ nTimers = 2
    /\ tpc[1] = "command"
    /\ finished[1]
    /\ ~cancelledPending[1]
    /\ Armed(2)
    /\ mainpc = "poll"
    /\ delay = 1
    /\ sinceLast = 0

\* C17: runs do not exclude each other or the main thread: while a run is
\* in progress the loop still takes every event, and a forwarded event
\* taken then arms a new timer for the whole delay and leaves the runs in
\* progress as they are.
C17_NoMutualExclusion ==
    /\ [](((\E t \in Timers : InRun(t)) /\ mainpc = "poll"
              /\ nTimers < MaxEvents)
            => \A device \in Events : ENABLED HandleDeviceEvent(device))
    /\ [][\A device \in Events :
            (HandleDeviceEvent(device) /\ ShouldForward(device)
               /\ \E t \in Timers : InRun(t))
            => /\ nTimers' = nTimers + 1
               /\ debounce_timer' = nTimers'
               /\ tpc'[nTimers'] = "wait"
               /\ ~finished'[nTimers']
               /\ remaining'[nTimers'] = delay
               /\ \A t \in Timers : InRun(t) => tpc'[t] = tpc[t]]_vars

\* Two runs are in flight at once: the second timer, armed after the
\* first had fired, has fired too before the first run ended.
C17_Witness ==
    /\ nTimers = 2
    /\ InRun(1)
    /\ InRun(2)
    /\ mainpc = "poll"

\* C18: _wait_for_displays_ready scans nothing before the settle sleep is
\* over; a scan is made only in the loop while the accumulated wait is
\* below max_wait and every scan so far saw no connected display, each
\* such scan followed by one check_interval of sleep; the first scan that
\* sees a connected display ends the wait with no further scan.
C18_SettleThenPoll ==
    /\ [](rpc \in {"idle", "settle"} => polls = 0)
    /\ [](polls > 0 => waited >= SettleUnits)
    /\ [](rpc = "poll" =>
            /\ waited = SettleUnits + polls * CheckUnits
            /\ polls > 0 => ConnectedIn(seen) = 0)
    /\ [][polls' # polls =>
            /\ rpc = "poll"
            /\ waited < MaxWaitUnits
            /\ polls' = polls + 1
            /\ ConnectedIn(seen') > 0 => rpc' = "ready" /\ waited' = waited
            /\ ConnectedIn(seen') = 0 =>
                  rpc' = "poll" /\ waited' = waited + CheckUnits]_vars
    /\ [][rpc # "poll" => polls' = polls /\ seen' = seen]_vars

\* The third scan is the first to see a connected display and the wait
\* has ended there, two check intervals after the settle sleep.
C18_Witness ==
    /\ rpc = "ready"
    /\ polls = 3
    /\ waited = SettleUnits + 2 * CheckUnits
    /\ ConnectedIn(seen) > 0

\* How far a timer's thread has come.
Stage(pc) ==
    CASE pc = "none" -> 0
      [] pc = "wait" -> 1
      [] pc \in {"fire", "dead"} -> 2
      [] pc = "readiness" -> 3
      [] pc = "command" -> 4
      [] OTHER -> 5

\* The timers whose function has been called.
RunsStarted == { t \in Timers : Stage(tpc[t]) >= 3 }

\* C19: nothing runs without an event and nothing is run again: a timer
\* is made only by a forwarded event, one per event, so the runs started
\* and the commands spawned are never more than the events forwarded; and
\* a timer's thread only moves forward, so it starts at most one run and
\* the run spawns the command at most once.
C19_NoRetryNoSpontaneousRun ==
    /\ [](Cardinality(RunsStarted) <= nTimers)
    /\ [](\A t \in Timers : tpc[t] # "none" => t <= nTimers)
    /\ [][nTimers' # nTimers =>
            /\ nTimers' = nTimers + 1
            /\ mainpc = "poll"
            /\ ClaimForwards(lastEvent')]_vars
    /\ [][\A t \in Timers :
            tpc'[t] # tpc[t] => Stage(tpc'[t]) > Stage(tpc[t])]_vars

\* The one command spawned has failed and the debounce delay has gone by
\* again: the timer's thread has ended and nothing has been run anew.
C19_Witness ==
    /\ nTimers = 1
    /\ tpc[1] = "done"
    /\ lastOutcome = "failed"
    /\ sinceLast > delay
    /\ mainpc = "poll"

\* C20: the `except Exception` path cancels nothing: the step that ends
\* the loop with status 1 leaves every timer as it was, and a timer that
\* was armed then is never cancelled afterwards, wakes with its flag clear
\* when its delay is over and goes into its run.
C20_ErrorExitLeavesTimerArmed ==
    /\ [][(mainpc # "failed" /\ mainpc' = "failed") =>
            /\ exitStatus' = 1
            /\ finished' = finished
            /\ cancelledPending' = cancelledPending
            /\ tpc' = tpc
            /\ remaining' = remaining]_vars
    /\ [](armedAtExit # 0 =>
            /\ mainpc = "failed"
            /\ exitStatus = 1
            /\ armedAtExit = debounce_timer
            /\ ~cancelledPending[armedAtExit]
            /\ tpc[armedAtExit] \notin {"none", "dead"}
            /\ tpc[armedAtExit] = "wait" => Armed(armedAtExit)
            /\ sinceLast > delay => Stage(tpc[armedAtExit]) >= 2)
    /\ [][\A t \in Timers :
            (cancelledPending'[t] /\ ~cancelledPending[t])
               => mainpc = "poll" /\ mainpc' \in {"poll", "interrupted"}]_vars

\* The loop has ended with status 1 while timer 1 was armed, and timer 1
\* has since fired, waited for the displays and spawned the command.
C20_Witness ==
    /\ mainpc = "failed"
    /\ exitStatus = 1
    /\ armedAtExit = 1
    /\ tpc[1] = "command"

====
